---- MODULE Spec2Model ----
(***************************************************************************)
(* Model of github.com/bnixon67/exposed: the Pwned Passwords range-query   *)
(* client (package exposed) and its command-line front end (cmd/main.go).  *)
(*                                                                         *)
(* Go strings are TLA+ strings (TLC evaluates Len, \o and SubSeq on them). *)
(* A Go int is written as its canonical decimal numeral ("0", "10434004",  *)
(* "-5", "9223372036854775807"), so that the 64-bit range of strconv.Atoi  *)
(* is kept: TLC's own integers are 32 bits wide.                           *)
(*                                                                         *)
(* The package is modelled in its PwnedClient form, the one cmd/main.go    *)
(* and the tests call.  Its earlier function form (constructURL,           *)
(* scanLines, createRequest) has the same bodies, except that its          *)
(* CheckPwnedHash does not uppercase the hash.                             *)
(*                                                                         *)
(* Left out: lines longer than a bufio.Scanner's buffer in a response      *)
(* body, URLs with userinfo, fragment or escapes, "." and ".." path        *)
(* elements, non-ASCII text, and the transport's timeouts and redirects    *)
(* (a failed request is one DoFail step whatever its cause).               *)
(***************************************************************************)
EXTENDS Integers, Sequences, FiniteSets, TLC

(***************************************************************************)
(* package strings                                                         *)
(***************************************************************************)

\* s[i-1] of Go, as a one-character string.
At(s, i) == SubSeq(s, i, i)

\* s[n:] of Go (n a byte offset, 0-based).
From(s, n) == SubSeq(s, n + 1, Len(s))

LowerLetters == "abcdefghijklmnopqrstuvwxyz"

UpperLetters == "ABCDEFGHIJKLMNOPQRSTUVWXYZ"

\* unicode.ToUpper on one ASCII character.
UpperChar(c) ==
  IF \E i \in 1..26 : At(LowerLetters, i) = c
  THEN At(UpperLetters, CHOOSE i \in 1..26 : At(LowerLetters, i) = c)
  ELSE c

RECURSIVE ToUpper(_)
\* strings.ToUpper.
ToUpper(s) ==
  IF s = "" THEN "" ELSE UpperChar(At(s, 1)) \o ToUpper(From(s, 1))

\* strings.HasPrefix.
HasPrefix(s, prefix) ==
  Len(s) >= Len(prefix) /\ SubSeq(s, 1, Len(prefix)) = prefix

\* strings.Index for a one-character separator: 1-based position, 0 if absent.
IndexOf(s, sep) ==
  IF \E i \in 1..Len(s) : At(s, i) = sep
  THEN CHOOSE i \in 1..Len(s) :
         At(s, i) = sep /\ \A j \in 1..(i - 1) : At(s, j) # sep
  ELSE 0

\* strings.Cut.
Cut(s, sep) ==
  LET i == IndexOf(s, sep) IN
  IF i = 0 THEN [before |-> s, after |-> "", found |-> FALSE]
  ELSE [before |-> SubSeq(s, 1, i - 1), after |-> From(s, i), found |-> TRUE]

IsSpace(c) == c \in {" ", "\t", "\n", "\r"}

RECURSIVE TrimLeft(_)
TrimLeft(s) ==
  IF s # "" /\ IsSpace(At(s, 1)) THEN TrimLeft(From(s, 1)) ELSE s

RECURSIVE TrimRight(_)
TrimRight(s) ==
  IF s # "" /\ IsSpace(At(s, Len(s)))
  THEN TrimRight(SubSeq(s, 1, Len(s) - 1)) ELSE s

\* strings.TrimSpace.
TrimSpace(s) == TrimRight(TrimLeft(s))

(***************************************************************************)
(* package strconv: Atoi on a 64-bit platform                              *)
(***************************************************************************)

Digits == "0123456789"

IsDigit(c) == \E i \in 1..10 : At(Digits, i) = c

DigitVal(c) == (CHOOSE i \in 1..10 : At(Digits, i) = c) - 1

RECURSIVE StripZeros(_)
\* The canonical numeral of a digit string: no leading zeros, "0" for zero.
StripZeros(d) ==
  IF Len(d) > 1 /\ At(d, 1) = "0" THEN StripZeros(From(d, 1))
  ELSE IF d = "" THEN "0" ELSE d

RECURSIVE LexGreater(_, _)
\* a > b for digit strings of equal length.
LexGreater(a, b) ==
  IF a = "" THEN FALSE
  ELSE IF At(a, 1) # At(b, 1) THEN DigitVal(At(a, 1)) > DigitVal(At(b, 1))
  ELSE LexGreater(From(a, 1), From(b, 1))

\* a > b for canonical numerals of non-negative integers.
NumGreater(a, b) ==
  \/ Len(a) > Len(b)
  \/ Len(a) = Len(b) /\ LexGreater(a, b)

MaxUint64 == "18446744073709551615"

MaxInt64 == "9223372036854775807"

MinInt64 == "-9223372036854775808"

\* 1<<63, the cutoff of ParseInt.
Cutoff63 == "9223372036854775808"

RECURSIVE ParseUintFrom(_, _)
\* strconv.ParseUint(s, 10, 64), reading s from position i: the first
\* character that is not a digit is a syntax error, the first prefix whose
\* value exceeds 1<<64-1 is a range error.
ParseUintFrom(s, i) ==
  IF i > Len(s) THEN [n |-> StripZeros(s), err |-> ""]
  ELSE IF ~IsDigit(At(s, i)) THEN [n |-> "0", err |-> "syntax"]
  ELSE IF NumGreater(StripZeros(SubSeq(s, 1, i)), MaxUint64)
       THEN [n |-> MaxUint64, err |-> "range"]
  ELSE ParseUintFrom(s, i + 1)

ParseUint(s) ==
  IF s = "" THEN [n |-> "0", err |-> "syntax"] ELSE ParseUintFrom(s, 1)

Negate(n) == IF n = "0" THEN "0" ELSE "-" \o n

\* strconv.ParseInt(s, 10, 0).
ParseInt(s) ==
  IF s = "" THEN [n |-> "0", err |-> "syntax"]
  ELSE
    LET neg == At(s, 1) = "-"
        body == IF At(s, 1) \in {"+", "-"} THEN From(s, 1) ELSE s
        un == ParseUint(body)
    IN  IF un.err = "syntax" THEN [n |-> "0", err |-> "syntax"]
        ELSE IF ~neg /\ ~NumGreater(Cutoff63, un.n)
             THEN [n |-> MaxInt64, err |-> "range"]
        ELSE IF neg /\ NumGreater(un.n, Cutoff63)
             THEN [n |-> MinInt64, err |-> "range"]
        ELSE [n |-> IF neg THEN Negate(un.n) ELSE un.n, err |-> ""]

\* strconv.Atoi: the fast path for 0 < len(s) < 19, ParseInt otherwise.
Atoi(s) ==
  IF 0 < Len(s) /\ Len(s) < 19 THEN
    LET neg == At(s, 1) = "-"
        body == IF At(s, 1) \in {"+", "-"} THEN From(s, 1) ELSE s
    IN  IF body = "" \/ \E i \in 1..Len(body) : ~IsDigit(At(body, i))
        THEN [n |-> "0", err |-> "syntax"]
        ELSE [n |-> IF neg THEN Negate(StripZeros(body)) ELSE StripZeros(body),
              err |-> ""]
  ELSE ParseInt(s)

(***************************************************************************)
(* package bufio: Scanner with the ScanLines split function                *)
(***************************************************************************)

\* bufio.dropCR: one trailing carriage return is removed.
dropCR(data) ==
  IF data # "" /\ At(data, Len(data)) = "\r"
  THEN SubSeq(data, 1, Len(data) - 1) ELSE data

RECURSIVE ScanLines(_)
\* The tokens a bufio.Scanner with bufio.ScanLines yields for the whole of
\* data, in order: text up to each newline, and a last unterminated line if
\* it is not empty.
ScanLines(data) ==
  IF data = "" THEN << >>
  ELSE
    LET i == IndexOf(data, "\n") IN
    IF i = 0 THEN << dropCR(data) >>
    ELSE << dropCR(SubSeq(data, 1, i - 1)) >> \o ScanLines(From(data, i))

(***************************************************************************)
(* Inputs                                                                  *)
(***************************************************************************)

\* Plaintext secrets handed to the password lookups.
Passwords == {"password", "abc"}

\* Texts handed to the hash lookups: the SHA-1 digest of "password" in lower
\* case, two truncations of it, a text shorter than the 5-character prefix
\* and the NT hash of "password".
HashTexts ==
  { "5baa61e4c9b93f3f0682250b6cf8331b7ee68fd8",
    "5BAA61E4",
    "5BAA6",
    "abc",
    "8846F7EAEE8FB117AD06BDD830B7586C" }

\* ValidHashes and a value outside it.
Modes == {"sha1", "ntlm", "md5"}

\* ValidLookups and a value outside it.
Lookups == {"password", "hash", "bogus"}

\* BaseURL is the endpoint for the Pwned Passwords API.
BaseURL == "https://api.pwnedpasswords.com/range"

\* The base URLs a PwnedClient is constructed with: the API's, a test
\* server's (no path) and one url.Parse rejects.
BaseURLs == {BaseURL, "http://127.0.0.1:8080", "://bad"}

(***************************************************************************)
(* Hasher.  crypto/sha1 and x/crypto/md4 are libraries: the model holds    *)
(* their digests of the secrets in Passwords (md4 over the UTF-16LE bytes),*)
(* in lower-case hex as encoding/hex writes them.                          *)
(***************************************************************************)

sha1Hex(s) ==
  CASE s = "password" -> "5baa61e4c9b93f3f0682250b6cf8331b7ee68fd8"
    [] s = "abc"      -> "a9993e364706816aba3e25717850c26c9cd0d89d"

md4Utf16Hex(s) ==
  CASE s = "password" -> "8846f7eaee8fb117ad06bdd830b7586c"
    [] s = "abc"      -> "e0fba38268d0ec66ef1cb452d5885e53"

\* ntHash computes the NT hash of s as an uppercase hex string.
ntHash(s) == ToUpper(md4Utf16Hex(s))

\* sha1Hash computes the SHA-1 hash of s as an uppercase hex string.
sha1Hash(s) == ToUpper(sha1Hex(s))

(***************************************************************************)
(* packages net/url and path, for URLs without userinfo, fragment or       *)
(* escapes and paths without "." and ".." elements                         *)
(***************************************************************************)

IsLetter(c) ==
  \E i \in 1..26 : At(LowerLetters, i) = c \/ At(UpperLetters, i) = c

RECURSIVE SchemeEnd(_, _)
\* url.getScheme: the position of the ':' ending the scheme, 0 if raw has no
\* scheme, -1 for "missing protocol scheme".
SchemeEnd(raw, i) ==
  IF i > Len(raw) THEN 0
  ELSE IF IsLetter(At(raw, i)) THEN SchemeEnd(raw, i + 1)
  ELSE IF IsDigit(At(raw, i)) \/ At(raw, i) \in {"+", "-", "."}
       THEN IF i = 1 THEN 0 ELSE SchemeEnd(raw, i + 1)
  ELSE IF At(raw, i) = ":" THEN IF i = 1 THEN -1 ELSE i
  ELSE 0

NoURL == [Scheme |-> "", Opaque |-> "", Host |-> "", Path |-> "", RawQuery |-> ""]

\* url.Parse, once the authority of a "//host/path" URL is cut at slash, the
\* position of its first '/' (0 if it has none).
urlParseAuthority(scheme, rest, slash, rawQuery) ==
  [u |-> [Scheme |-> scheme, Opaque |-> "",
          Host |-> IF slash = 0 THEN rest ELSE SubSeq(rest, 1, slash - 1),
          Path |-> IF slash = 0 THEN "" ELSE From(rest, slash - 1),
          RawQuery |-> rawQuery],
   err |-> ""]

\* url.Parse, after the scheme and the query are cut off: an opaque URL, one
\* with an authority, or a bare path.
urlParseRest(scheme, rest, rawQuery) ==
  IF ~HasPrefix(rest, "/") /\ scheme # ""
  THEN [u |-> [NoURL EXCEPT !.Scheme = scheme, !.Opaque = rest,
                            !.RawQuery = rawQuery],
        err |-> ""]
  ELSE IF HasPrefix(rest, "//")
  THEN urlParseAuthority(scheme, From(rest, 2), IndexOf(From(rest, 2), "/"),
                         rawQuery)
  ELSE [u |-> [Scheme |-> scheme, Opaque |-> "", Host |-> "", Path |-> rest,
               RawQuery |-> rawQuery],
        err |-> ""]

\* url.Parse, with e the result of getScheme.
urlParseScheme(raw, e, q) ==
  IF e = -1 THEN [u |-> NoURL, err |-> "missing protocol scheme"]
  ELSE urlParseRest(IF e = 0 THEN "" ELSE SubSeq(raw, 1, e - 1),
                    q.before, q.after)

\* url.Parse.
urlParse(raw) ==
  urlParseScheme(raw, SchemeEnd(raw, 1),
                 Cut(From(raw, SchemeEnd(raw, 1)), "?"))

\* URL.String.
urlString(u) ==
  (IF u.Scheme # "" THEN u.Scheme \o ":" ELSE "")
  \o (IF u.Opaque # "" THEN u.Opaque
      ELSE (IF (u.Scheme # "" \/ u.Host # "") /\ (u.Host # "" \/ u.Path # "")
            THEN "//" \o u.Host ELSE "")
           \o (IF u.Path # "" /\ At(u.Path, 1) # "/" /\ u.Host # ""
               THEN "/" ELSE "")
           \o u.Path)
  \o (IF u.RawQuery # "" THEN "?" \o u.RawQuery ELSE "")

RECURSIVE Collapse(_)
\* p without repeated and trailing slashes.
Collapse(p) ==
  IF p = "" THEN ""
  ELSE IF At(p, 1) = "/"
       THEN IF Len(p) = 1 THEN ""
            ELSE IF At(p, 2) = "/" THEN Collapse(From(p, 1))
            ELSE "/" \o Collapse(From(p, 1))
  ELSE At(p, 1) \o Collapse(From(p, 1))

\* path.Clean.
pathClean(p) ==
  IF p = "" THEN "."
  ELSE LET c == Collapse(p) IN IF c = "" THEN "/" ELSE c

\* path.Join of two elements: empty elements are ignored, the result cleaned.
pathJoin(a, b) ==
  IF a = "" /\ b = "" THEN ""
  ELSE IF a = "" THEN pathClean(b)
  ELSE IF b = "" THEN pathClean(a)
  ELSE pathClean(a \o "/" \o b)

\* u.Query(), query.Set("mode", mode), query.Encode(): exact for a URL with
\* no query of its own, the only kind in BaseURLs.
querySetMode(rawQuery, mode) ==
  IF rawQuery = "" THEN "mode=" \o mode ELSE "mode=" \o mode \o "&" \o rawQuery

(***************************************************************************)
(* package exposed                                                         *)
(***************************************************************************)

\* http.StatusOK.
StatusOK == 200

\* http.StatusInternalServerError.
StatusInternalServerError == 500

NoReq == [Method |-> "", URL |-> "", Header |-> {}, Body |-> ""]

NoRet == [count |-> "", err |-> ""]

\* extractCount returns the breach count from a line.
extractCount(line) ==
  LET c == Cut(line, ":") IN
  IF ~c.found THEN [count |-> "0", err |-> "count not found"]
  ELSE LET a == Atoi(c.after) IN
       [count |-> a.n,
        err |-> IF a.err = "" THEN "" ELSE "strconv.Atoi: " \o a.err]

\* buildURLParsed with the whole hash joined to the path instead of hash[:5].
buildURLParsedWholeHash(p, hash, mode) ==
  IF p.err # "" THEN [u |-> NoURL, err |-> p.err, panic |-> FALSE]
  ELSE IF Len(hash) < 5 THEN [u |-> NoURL, err |-> "", panic |-> TRUE]
  ELSE [u |-> [p.u EXCEPT
                 !.Path = pathJoin(p.u.Path, hash),
                 !.RawQuery = IF mode = "ntlm"
                              THEN querySetMode(p.u.RawQuery, mode)
                              ELSE p.u.RawQuery],
        err |-> "", panic |-> FALSE]

\* buildURL after url.Parse: hash[:5] panics on a hash shorter than 5
\* bytes; the prefix is joined to the path and, for mode "ntlm", the query
\* parameter is set.
buildURLParsed(p, hash, mode) ==
  IF p.err # "" THEN [u |-> NoURL, err |-> p.err, panic |-> FALSE]
  ELSE IF Len(hash) < 5 THEN [u |-> NoURL, err |-> "", panic |-> TRUE]
  ELSE [u |-> [p.u EXCEPT
                 !.Path = pathJoin(p.u.Path, SubSeq(hash, 1, 5)),
                 !.RawQuery = IF mode = "ntlm"
                              THEN querySetMode(p.u.RawQuery, mode)
                              ELSE p.u.RawQuery],
        err |-> "", panic |-> FALSE]

\* buildURL builds the URL for the API request.
buildURL(baseURL, hash, mode) ==
  buildURLParsed(urlParse(baseURL), hash, mode)

\* newGetRequestWithPadding creates an HTTP GET request for the given URL,
\* setting the Add-Padding header.
newGetRequestWithPadding(u) ==
  [Method |-> "GET",
   URL |-> urlString(urlParse(urlString(u)).u),
   Header |-> {<<"Add-Padding", "true">>},
   Body |-> ""]

RECURSIVE findLineWithPrefix(_, _, _)
\* findLineWithPrefix scans r and returns the first line that starts with
\* prefix.  lines are the lines r yields; readErr tells that reading r then
\* failed (the scanner hands out what it has read, and scanner.Err() is not
\* nil), otherwise r ended and "" is returned with no error.
findLineWithPrefix(lines, readErr, prefix) ==
  IF lines = << >>
  THEN [line |-> "", err |-> IF readErr THEN "read" ELSE ""]
  ELSE IF HasPrefix(Head(lines), prefix) THEN [line |-> Head(lines), err |-> ""]
  ELSE findLineWithPrefix(Tail(lines), readErr, prefix)

\* processResponse after findLineWithPrefix.
processFound(found) ==
  IF found.err # "" THEN [count |-> "0", err |-> found.err]
  ELSE IF found.line = "" THEN [count |-> "0", err |-> ""]
  ELSE extractCount(found.line)

\* processResponse processes body and extracts the breach count.
processResponse(body, readErr, hash) ==
  processFound(findLineWithPrefix(ScanLines(body), readErr, From(hash, 5)))

\* CheckPwnedHash after buildURL: its error returned with count 0, its panic,
\* or the request built for c.httpClient.Do.
CheckPwnedHashBuilt(hash, b) ==
  IF b.err # ""
  THEN [pc |-> "done", hash |-> hash, req |-> NoReq,
        ret |-> [count |-> "0", err |-> b.err]]
  ELSE IF b.panic
  THEN [pc |-> "panic", hash |-> hash, req |-> NoReq, ret |-> NoRet]
  ELSE [pc |-> "built", hash |-> hash,
        req |-> newGetRequestWithPadding(b.u), ret |-> NoRet]

\* CheckPwnedHash after hash = strings.ToUpper(hash).
CheckPwnedHashUpper(baseURL, hash, mode) ==
  CheckPwnedHashBuilt(hash, buildURL(baseURL, hash, mode))

\* CheckPwnedHash up to c.httpClient.Do.
CheckPwnedHashStart(baseURL, hashArg, mode) ==
  CheckPwnedHashUpper(baseURL, ToUpper(hashArg), mode)

\* CheckPwnedHash from the response on: the status check and processResponse.
CheckPwnedHashFinish(reqURL, status, body, readErr, hash) ==
  IF status # StatusOK
  THEN [count |-> "0", err |-> "received non-OK HTTP status"]
  ELSE processResponse(body, readErr, hash)

\* CheckPwnedPasswordStart with the switch turned round: SHA-1 for "sha1",
\* the NT hash for every other mode.
CheckPwnedPasswordStartNtDefault(baseURL, password, mode) ==
  CheckPwnedHashStart(
    baseURL,
    IF mode = "sha1" THEN sha1Hash(password) ELSE ntHash(password),
    mode)

\* CheckPwnedPassword hashes the password as mode selects and calls
\* CheckPwnedHash.
CheckPwnedPasswordStart(baseURL, password, mode) ==
  CheckPwnedHashStart(
    baseURL,
    IF mode = "ntlm" THEN ntHash(password) ELSE sha1Hash(password),
    mode)

\* ClientCheckPwnedStart without the default case: any lookup kind other
\* than "password" is taken for a hash.
ClientCheckPwnedStartNoDefault(baseURL, text, lookup, mode) ==
  IF lookup = "password" THEN CheckPwnedPasswordStart(baseURL, text, mode)
  ELSE CheckPwnedHashStart(baseURL, text, mode)

\* PwnedClient.CheckPwned.
ClientCheckPwnedStart(baseURL, text, lookup, mode) ==
  CASE lookup = "hash" -> CheckPwnedHashStart(baseURL, text, mode)
    [] lookup = "password" -> CheckPwnedPasswordStart(baseURL, text, mode)
    [] OTHER -> [pc |-> "done", hash |-> "", req |-> NoReq,
                 ret |-> [count |-> "0", err |-> "invalid lookup type"]]

\* The package-level CheckPwned, on DefaultPwnedClient.
CheckPwnedStart(text, lookup, mode) ==
  CASE lookup = "hash" -> CheckPwnedHashStart(BaseURL, text, mode)
    [] lookup = "password" -> CheckPwnedPasswordStart(BaseURL, text, mode)
    [] OTHER -> [pc |-> "done", hash |-> "", req |-> NoReq,
                 ret |-> [count |-> "0", err |-> "invalid lookup type"]]

(***************************************************************************)
(* The server's side: what the transport can answer                        *)
(***************************************************************************)

\* The longest response body, in lines.
MaxBodyLines == 2

\* The longest standard input of the front end, in lines.
MaxInputLines == 2

Statuses == {StatusOK, StatusInternalServerError}

\* Suffixes of the SHA-1 digest and of the NT hash of "password".
Sha1Suffix == "1E4C9B93F3F0682250B6CF8331B7EE68FD8"

NtSuffix == "7EAEE8FB117AD06BDD830B7586C"

\* Lines a response body is made of: entries for the two digests, a padding
\* entry for another suffix, a line with no colon, a matched line with no
\* colon, and entries whose count is negative, too large for an int, or not
\* a number.
EntryLines ==
  { Sha1Suffix \o ":10434004",
    NtSuffix \o ":10434004",
    "0018A45C4D1DEF81644B54AB7F969B88D65:0",
    "BADLINE",
    NtSuffix,
    Sha1Suffix \o ":-5",
    Sha1Suffix \o ":99999999999999999999",
    Sha1Suffix \o ":1x" }

RECURSIVE BodiesOf(_)
\* The bodies of exactly n lines, separated by CR LF as the API does.
BodiesOf(n) ==
  IF n = 0 THEN {""}
  ELSE IF n = 1 THEN EntryLines
  ELSE {b \o "\r\n" \o l : b \in BodiesOf(n - 1), l \in EntryLines}

Bodies == UNION {BodiesOf(n) : n \in 0..MaxBodyLines}

\* Lines of the front end's standard input.
InputLines == {"abc", " password\t", "  "}

RECURSIVE SeqsOf(_, _)
SeqsOf(S, n) ==
  IF n = 0 THEN {<< >>}
  ELSE {Append(q, x) : q \in SeqsOf(S, n - 1), x \in S}

Inputs == UNION {SeqsOf(InputLines, n) : n \in 0..MaxInputLines}

(***************************************************************************)
(* State                                                                   *)
(***************************************************************************)

VARIABLES
  pc,          \* the check call: "idle", "built", "sent", "done", "panic"
  call,        \* the entry point called and its arguments
  hash,        \* CheckPwnedHash's hash, after strings.ToUpper
  req,         \* the *http.Request built for c.httpClient.Do
  resp,        \* what the transport answered
  ret,         \* the (count, error) the call returned
  lastSent,    \* the request the transport sent last, with what it was built from
  cliPc,       \* readAndCheck: "off", "scan", "select", "check", "await",
               \* "returned", "crashed"
  lookupMode,  \* the -lookup flag
  hashMode,    \* the -mode flag
  input,       \* the lines of standard input not read yet
  line,        \* readAndCheck's line
  cancelled,   \* ctx.Done() is closed
  cliRet,      \* what readAndCheck returned
  out,         \* what readAndCheck printed, one record per line
  stdin,       \* all of standard input (never changes)
  lateCheck    \* a check was started after ctx was cancelled

libVars == <<pc, call, hash, req, resp, ret, lastSent>>

cliVars == <<cliPc, lookupMode, hashMode, input, line, cancelled, cliRet, out,
             stdin, lateCheck>>

vars == <<pc, call, hash, req, resp, ret, lastSent, cliPc, lookupMode,
          hashMode, input, line, cancelled, cliRet, out, stdin, lateCheck>>

NoCall == [op |-> "", text |-> "", lookup |-> "", mode |-> "", baseURL |-> ""]

NoResp == [kind |-> "none", status |-> 0, body |-> "", readErr |-> FALSE]

NoSent == [baseURL |-> "", hash |-> "", mode |-> "", req |-> NoReq]

LibInit ==
  /\ pc = "idle"
  /\ call = NoCall
  /\ hash = ""
  /\ req = NoReq
  /\ resp = NoResp
  /\ ret = NoRet
  /\ lastSent = NoSent

\* A test or program holding a PwnedClient; the front end is not running.
Init ==
  /\ LibInit
  /\ cliPc = "off"
  /\ lookupMode = ""
  /\ hashMode = ""
  /\ input = << >>
  /\ line = ""
  /\ cancelled = FALSE
  /\ cliRet = ""
  /\ out = << >>
  /\ stdin = << >>
  /\ lateCheck = FALSE

(***************************************************************************)
(* A check call, from its entry point to its return                        *)
(***************************************************************************)

\* The caller enters op with these arguments; start is how far the call gets
\* before it touches the transport.
Enter(op, text, lookup, mode, baseURL, start) ==
  /\ pc = "idle"
  /\ call' = [op |-> op, text |-> text, lookup |-> lookup, mode |-> mode,
              baseURL |-> baseURL]
  /\ pc' = start.pc
  /\ hash' = start.hash
  /\ req' = start.req
  /\ ret' = start.ret
  /\ resp' = NoResp
  /\ UNCHANGED lastSent

\* The texts a caller passes with a lookup kind: secrets to hash, or hashes.
TextsFor(lookup) ==
  IF lookup = "password" THEN Passwords ELSE HashTexts

\* c.CheckPwned(text, lookup, mode) on a client built by NewPwnedClient.
CallClientCheckPwned ==
  /\ cliPc = "off"
  /\ \E lookup \in Lookups, mode \in Modes, baseURL \in BaseURLs :
       \E text \in TextsFor(lookup) :
         Enter("PwnedClient.CheckPwned", text, lookup, mode, baseURL,
               ClientCheckPwnedStart(baseURL, text, lookup, mode))
  /\ UNCHANGED cliVars

\* exposed.CheckPwned(text, lookup, mode), on DefaultPwnedClient.
CallCheckPwned ==
  /\ cliPc = "off"
  /\ \E lookup \in Lookups, mode \in Modes :
       \E text \in TextsFor(lookup) :
         Enter("CheckPwned", text, lookup, mode, BaseURL,
               CheckPwnedStart(text, lookup, mode))
  /\ UNCHANGED cliVars

\* c.CheckPwnedHash(hash, mode).
CallCheckPwnedHash ==
  /\ cliPc = "off"
  /\ \E text \in HashTexts, mode \in Modes, baseURL \in BaseURLs :
       Enter("PwnedClient.CheckPwnedHash", text, "", mode, baseURL,
             CheckPwnedHashStart(baseURL, text, mode))
  /\ UNCHANGED cliVars

\* c.CheckPwnedPassword(password, mode).
CallCheckPwnedPassword ==
  /\ cliPc = "off"
  /\ \E text \in Passwords, mode \in Modes, baseURL \in BaseURLs :
       Enter("PwnedClient.CheckPwnedPassword", text, "", mode, baseURL,
             CheckPwnedPasswordStart(baseURL, text, mode))
  /\ UNCHANGED cliVars

\* c.httpClient.Do(req) sends the request.
DoSend ==
  /\ pc = "built"
  /\ pc' = "sent"
  /\ lastSent' = [baseURL |-> call.baseURL, hash |-> hash, mode |-> call.mode,
                  req |-> req]
  /\ UNCHANGED <<call, hash, req, resp, ret>>
  /\ UNCHANGED cliVars

\* c.httpClient.Do(req) fails (DNS, TLS, timeout, connection reset):
\* CheckPwnedHash returns 0 and the error.
DoFail ==
  /\ pc = "built"
  /\ pc' = "done"
  /\ resp' = [kind |-> "error", status |-> 0, body |-> "", readErr |-> FALSE]
  /\ ret' = [count |-> "0", err |-> "transport"]
  /\ UNCHANGED <<call, hash, req, lastSent>>
  /\ UNCHANGED cliVars

\* The server answers; CheckPwnedHash checks the status, parses the body and
\* returns.  body is what is read of the response body, readErr whether the
\* read then fails instead of ending.
Respond ==
  /\ pc = "sent"
  /\ \E status \in Statuses :
       \E body \in IF status = StatusOK THEN Bodies ELSE {""},
          readErr \in IF status = StatusOK THEN BOOLEAN ELSE {FALSE} :
         /\ resp' = [kind |-> "http", status |-> status, body |-> body,
                     readErr |-> readErr]
         /\ ret' = CheckPwnedHashFinish(req.URL, status, body, readErr, hash)
  /\ pc' = "done"
  /\ UNCHANGED <<call, hash, req, lastSent>>
  /\ UNCHANGED cliVars

\* The caller has the result; the client is ready for its next call.
Return ==
  /\ cliPc = "off"
  /\ pc = "done"
  /\ pc' = "idle"
  /\ call' = NoCall
  /\ hash' = ""
  /\ req' = NoReq
  /\ resp' = NoResp
  /\ ret' = NoRet
  /\ UNCHANGED lastSent
  /\ UNCHANGED cliVars

Next ==
  \/ CallClientCheckPwned
  \/ CallCheckPwned
  \/ CallCheckPwnedHash
  \/ CallCheckPwnedPassword
  \/ DoSend
  \/ DoFail
  \/ Respond
  \/ Return

Spec == Init /\ [][Next]_vars

(***************************************************************************)
(* cmd/main.go: main and readAndCheck                                      *)
(***************************************************************************)

\* main has validated the flags against ValidLookups and ValidHashes,
\* installed the signal handler and called readAndCheck on standard input.
InitCLI ==
  /\ LibInit
  /\ cliPc = "scan"
  /\ lookupMode \in {"password", "hash"}
  /\ hashMode \in {"sha1", "ntlm"}
  /\ stdin \in Inputs
  /\ input = stdin
  /\ line = ""
  /\ cancelled = FALSE
  /\ cliRet = ""
  /\ out = << >>
  /\ lateCheck = FALSE

\* The signal handler's goroutine receives os.Interrupt or SIGTERM and calls
\* cancel(), at any moment while readAndCheck runs.
Cancel ==
  /\ cliPc \in {"scan", "select", "check", "await"}
  /\ ~cancelled
  /\ cancelled' = TRUE
  /\ UNCHANGED <<cliPc, lookupMode, hashMode, input, line, cliRet, out, stdin,
                 lateCheck>>
  /\ UNCHANGED libVars

\* scanner.Scan() returns true with the next line.
ScanLine ==
  /\ cliPc = "scan"
  /\ input # << >>
  /\ line' = Head(input)
  /\ input' = Tail(input)
  /\ cliPc' = "select"
  /\ UNCHANGED <<lookupMode, hashMode, cancelled, cliRet, out, stdin, lateCheck>>
  /\ UNCHANGED libVars

\* scanner.Scan() returns false at the end of input; scanner.Err() is nil and
\* readAndCheck returns nil.
ScanEOF ==
  /\ cliPc = "scan"
  /\ input = << >>
  /\ cliPc' = "returned"
  /\ cliRet' = "nil"
  /\ UNCHANGED <<lookupMode, hashMode, input, line, cancelled, out, stdin,
                 lateCheck>>
  /\ UNCHANGED libVars

\* scanner.Scan() returns false because reading failed or a line is longer
\* than maxScanTokenSize: readAndCheck returns the scanner error.
ScanFail ==
  /\ cliPc = "scan"
  /\ cliPc' = "returned"
  /\ cliRet' = "scanner error"
  /\ UNCHANGED <<lookupMode, hashMode, input, line, cancelled, out, stdin,
                 lateCheck>>
  /\ UNCHANGED libVars

\* The select finds ctx.Done() closed: readAndCheck returns ctx.Err().
SelectDone ==
  /\ cliPc = "select"
  /\ cancelled
  /\ cliPc' = "returned"
  /\ cliRet' = "context.Canceled"
  /\ UNCHANGED <<lookupMode, hashMode, input, line, cancelled, out, stdin,
                 lateCheck>>
  /\ UNCHANGED libVars

\* The select takes its default case; the line is trimmed, and skipped if
\* empty.
SelectDefault ==
  /\ cliPc = "select"
  /\ ~cancelled
  /\ line' = TrimSpace(line)
  /\ cliPc' = IF TrimSpace(line) = "" THEN "scan" ELSE "check"
  /\ UNCHANGED <<lookupMode, hashMode, input, cancelled, cliRet, out, stdin,
                 lateCheck>>
  /\ UNCHANGED libVars

\* exposed.CheckPwned(line, lookupMode, hashMode) is called.
CheckLine ==
  /\ cliPc = "check"
  /\ Enter("CheckPwned", line, lookupMode, hashMode, BaseURL,
           CheckPwnedStart(line, lookupMode, hashMode))
  /\ cliPc' = "await"
  /\ lateCheck' = (lateCheck \/ cancelled)
  /\ UNCHANGED <<lookupMode, hashMode, input, line, cancelled, cliRet, out,
                 stdin>>

\* What readAndCheck prints for a line, from the count and error returned.
Report(text, r) ==
  [line |-> text,
   kind |-> IF r.err # "" THEN "failed"
            ELSE IF r.count = "0" THEN "not found" ELSE "exposed",
   count |-> r.count,
   err |-> r.err]

\* CheckPwned has returned: the failure, "not found" or the count is printed
\* and the loop goes on to the next line.
PrintResult ==
  /\ cliPc = "await"
  /\ pc = "done"
  /\ out' = Append(out, Report(line, ret))
  /\ cliPc' = "scan"
  /\ pc' = "idle"
  /\ call' = NoCall
  /\ hash' = ""
  /\ req' = NoReq
  /\ resp' = NoResp
  /\ ret' = NoRet
  /\ UNCHANGED <<lastSent, lookupMode, hashMode, input, line, cancelled, cliRet,
                 stdin, lateCheck>>

\* CheckPwned has panicked; nothing recovers, and the process dies.
Crash ==
  /\ cliPc = "await"
  /\ pc = "panic"
  /\ cliPc' = "crashed"
  /\ UNCHANGED <<lookupMode, hashMode, input, line, cancelled, cliRet, out,
                 stdin, lateCheck>>
  /\ UNCHANGED libVars

NextCLI ==
  \/ Cancel
  \/ ScanLine
  \/ ScanEOF
  \/ ScanFail
  \/ SelectDone
  \/ SelectDefault
  \/ CheckLine
  \/ DoSend
  \/ DoFail
  \/ Respond
  \/ PrintResult
  \/ Crash

SpecCLI == InitCLI /\ [][NextCLI]_vars

(***************************************************************************)
(* Properties                                                              *)
(***************************************************************************)

\* The 5-character prefix of a hash.
Prefix5(h) == SubSeq(h, 1, 5)

\* The request just built and the request sent last were built from the
\* same base URL, the same mode and hashes with the same first 5 characters.
SameRangeAsLastSent ==
  /\ pc = "built"
  /\ lastSent # NoSent
  /\ lastSent.baseURL = call.baseURL
  /\ lastSent.mode = call.mode
  /\ Prefix5(lastSent.hash) = Prefix5(hash)

\* C1: the request of a check is determined by the base URL, the first 5
\* characters of the uppercased digest and the algorithm alone: two calls that
\* agree on these send identical requests, and each request is a GET of
\* base/prefix (with ?mode=ntlm for NTLM only), with the Add-Padding header
\* and no body, so nothing of the digest beyond its prefix and nothing of the
\* secret is in it.
C1_RequestFromPrefixOnly ==
  /\ SameRangeAsLastSent => req = lastSent.req
  /\ pc = "built" =>
       /\ req.Method = "GET"
       /\ hash = ToUpper(hash)
       /\ req.URL = call.baseURL \o "/" \o Prefix5(hash)
                      \o (IF call.mode = "ntlm" THEN "?mode=ntlm" ELSE "")
       /\ req.Header = {<<"Add-Padding", "true">>}
       /\ req.Body = ""

\* Two calls with different hashes of the same range have sent the same
\* request.
C1_Witness ==
  /\ SameRangeAsLastSent
  /\ lastSent.hash # hash
  /\ req = lastSent.req

\* The call is a password check, direct or through a dispatcher.
IsPasswordCall ==
  \/ call.op = "PwnedClient.CheckPwnedPassword"
  \/ call.op \in {"PwnedClient.CheckPwned", "CheckPwned"}
       /\ call.lookup = "password"

\* C9: in a password check the digest computed locally and the mode sent
\* agree: the request carries mode=ntlm exactly when the digest is the
\* 32-character NT hash of the secret, and no query exactly when it is the
\* 40-character SHA-1 digest; an unrecognized mode is hashed with SHA-1.
C9_DigestAndWireModeAgree ==
  (pc = "built" /\ IsPasswordCall) =>
    /\ \/ /\ urlParse(req.URL).u.RawQuery = "mode=ntlm"
          /\ hash = ntHash(call.text)
          /\ Len(hash) = 32
       \/ /\ urlParse(req.URL).u.RawQuery = ""
          /\ hash = sha1Hash(call.text)
          /\ Len(hash) = 40
    /\ call.mode \notin {"sha1", "ntlm"} => hash = sha1Hash(call.text)

\* A password check with an unrecognized mode has built its request, with
\* the SHA-1 digest and no mode parameter.
C9_Witness ==
  /\ pc = "built"
  /\ IsPasswordCall
  /\ call.mode = "md5"
  /\ Len(hash) = 40
  /\ urlParse(req.URL).u.RawQuery = ""

\* The call went through a dispatcher: the client's method or the package's
\* function.
IsDispatch == call.op \in {"PwnedClient.CheckPwned", "CheckPwned"}

\* The call has got as far as it gets before the transport acts.
BeforeTransport ==
  \/ pc \in {"built", "panic"}
  \/ pc = "done" /\ resp = NoResp

\* C8: CheckPwned with a lookup kind other than "password" and "hash" fails
\* with the invalid-lookup error and count 0, whatever the text and the mode,
\* and sends nothing; "hash" goes to CheckPwnedHash and "password" to
\* CheckPwnedPassword with the same text and mode (the package's function on
\* the default client).
C8_DispatchByLookupKind ==
  (IsDispatch /\ pc # "idle") =>
    /\ call.lookup \notin {"password", "hash"} =>
         /\ pc = "done"
         /\ ret = [count |-> "0", err |-> "invalid lookup type"]
         /\ req = NoReq
         /\ resp = NoResp
    /\ (call.lookup = "hash" /\ BeforeTransport) =>
         [pc |-> pc, hash |-> hash, req |-> req, ret |-> ret]
           = CheckPwnedHashStart(call.baseURL, call.text, call.mode)
    /\ (call.lookup = "password" /\ BeforeTransport) =>
         [pc |-> pc, hash |-> hash, req |-> req, ret |-> ret]
           = CheckPwnedPasswordStart(call.baseURL, call.text, call.mode)
    /\ call.op = "CheckPwned" => call.baseURL = BaseURL

\* The client's CheckPwned has returned the invalid-lookup error.
C8_Witness ==
  /\ pc = "done"
  /\ call.op = "PwnedClient.CheckPwned"
  /\ call.lookup = "bogus"
  /\ ret = [count |-> "0", err |-> "invalid lookup type"]

(***************************************************************************)
(* Response parsing as the specification words it                          *)
(***************************************************************************)

\* The call was answered with status 200, the body was read to its end, and
\* the call has returned.
Answered200 ==
  /\ pc = "done"
  /\ resp.kind = "http"
  /\ resp.status = StatusOK
  /\ ~resp.readErr

\* The SUFFIX field of a line: the text before its first ':'.
SuffixField(l) == Cut(l, ":").before

\* The suffix of the queried digest: the digest without its first 5
\* characters.
QueriedSuffix == From(hash, 5)

\* The lines of the body answered.
BodyLines == ScanLines(resp.body)

\* The positions of the entries whose SUFFIX field equals the queried suffix.
EqualEntries ==
  {i \in 1..Len(BodyLines) : SuffixField(BodyLines[i]) = QueriedSuffix}

\* The first entry, in body order, whose SUFFIX field equals the queried
\* suffix.
FirstEqualEntry ==
  BodyLines[CHOOSE i \in EqualEntries : \A j \in EqualEntries : i <= j]

\* C2: the count returned is the COUNT of the first entry, in body order,
\* whose SUFFIX field equals the queried digest's suffix; an entry whose
\* suffix only begins with the queried suffix is no match, and neither is any
\* entry when the queried suffix is empty or shorter than a full suffix.
C2_CountOfFirstEqualSuffix ==
  (Answered200 /\ ret.err = "") =>
    ret.count = IF EqualEntries = {} THEN "0"
                ELSE Atoi(Cut(FirstEqualEntry, ":").after).n

\* The positions of the lines with no ':' that the scan reaches: no line
\* before them starts with the queried suffix.
ReachedMalformed ==
  {i \in 1..Len(BodyLines) :
     /\ ~Cut(BodyLines[i], ":").found
     /\ \A j \in 1..(i - 1) : ~HasPrefix(BodyLines[j], QueriedSuffix)}

\* C3: a 200 response with a line without ':' at a position the scan reaches
\* fails with the malformed-entry error; the line is never skipped, whether
\* or not it starts with the queried suffix or a matching entry follows it.
C3_MalformedEntryNeverSkipped ==
  (Answered200 /\ ReachedMalformed # {}) => ret.err = "count not found"

\* C4: a check answered with status 200 whose body has no line with a SUFFIX
\* field equal to the queried suffix (an empty body, entries for other
\* suffixes, padding) returns count 0 and no error.
C4_NoEqualSuffixGivesZero ==
  (Answered200 /\ EqualEntries = {}) => ret = [count |-> "0", err |-> ""]

\* C5: whenever a check returns an error, the count returned with it is 0,
\* whatever the cause: status, transport, base URL, lookup kind, an entry
\* without ':', a count that is no integer or too large for an int.
C5_ErrorMeansCountZero ==
  (pc = "done" /\ ret.err # "") => ret.count = "0"

\* The line the code takes for the queried digest's entry.
MatchedLine == findLineWithPrefix(BodyLines, FALSE, QueriedSuffix).line

\* The COUNT field is a non-empty string of digits.
IsCountField(c) ==
  c # "" /\ \A i \in 1..Len(c) : IsDigit(At(c, i))

\* C7: a count returned without error is a non-negative integer: when the
\* COUNT field of the matched entry is not a non-negative integer (negative,
\* signed, empty, not digits) the call fails instead of returning a value.
C7_CountNonNegative ==
  /\ (pc = "done" /\ ret.err = "") => At(ret.count, 1) # "-"
  /\ (Answered200 /\ MatchedLine # ""
        /\ ~IsCountField(Cut(MatchedLine, ":").after))
       => ret.err # ""

(***************************************************************************)
(* The front end's batch                                                   *)
(***************************************************************************)

RECURSIVE NonEmptyLines(_)
\* The number of lines of q that are not empty once trimmed.
NonEmptyLines(q) ==
  IF q = << >> THEN 0
  ELSE (IF TrimSpace(Head(q)) = "" THEN 0 ELSE 1) + NonEmptyLines(Tail(q))

\* C6: no line of a batch aborts the rest: the check of every non-empty line
\* returns to the loop (the process never crashes), its outcome is printed,
\* and the lines after it are checked; hash lines shorter than 5 characters
\* included.
C6_NoLineAbortsBatch ==
  /\ cliPc # "crashed"
  /\ pc # "panic"
  /\ (cliPc = "returned" /\ cliRet = "nil") => Len(out) = NonEmptyLines(stdin)

\* C10: once the context is cancelled no check is started, and readAndCheck
\* returns context.Canceled, not nil, whatever input remains.
C10_CancelStopsAndIsReturned ==
  /\ ~lateCheck
  /\ (cliPc = "returned" /\ cancelled) => cliRet = "context.Canceled"

====
